---- MODULE Spec2Model ----
(***************************************************************************)
(* The trade analytics engine of the Analytics page                        *)
(* (tao-trader-ui/src/pages/FailDashboard.jsx, and its older version       *)
(* Old/OldAnalytics.jsx): applyFilters, computeAnalytics and the effect     *)
(* that re-runs both whenever the trade list or the filters change.         *)
(*                                                                         *)
(* JavaScript values are tagged records; strings that the code parses or   *)
(* compares character by character are sequences of one-character strings.  *)
(***************************************************************************)
EXTENDS Integers, Sequences, FiniteSets, TLC

\* ------------------------------------------------------------------ bounds

\* Longest trade list returned by the API.
MaxTrades == 2

\* Longest list of trades with outcomes: a run of wins broken by a loss
\* takes three.
MaxAnalyticsTrades == 3

\* fetchTrades calls followed per view, the one of the mount effect included:
\* two overlapping calls and a retry take three.
MaxFetches == 3

\* Requests in flight at the same time (fetches and writes together) once a
\* further write has been started: two make two writes overlap.
MaxInFlight == 2

\* --------------------------------------------------------- JavaScript values

Undefined == [t |-> "undefined"]
Null == [t |-> "null"]
NaN == [t |-> "NaN"]
Num(n) == [t |-> "number", v |-> n]
Str(s) == [t |-> "string", v |-> s]
Arr(a) == [t |-> "array", v |-> a]

IsNum(x) == x.t = "number"

Digits == {"0", "1", "2", "3", "4", "5", "6", "7", "8", "9"}

\* UTF-16 code unit of the characters that occur in the model's strings.
CharCodes ==
    [c \in Digits \cup {":", "-", "a", "b", "x"} |->
        CASE c = "0" -> 48 [] c = "1" -> 49 [] c = "2" -> 50 [] c = "3" -> 51
          [] c = "4" -> 52 [] c = "5" -> 53 [] c = "6" -> 54 [] c = "7" -> 55
          [] c = "8" -> 56 [] c = "9" -> 57 [] c = ":" -> 58 [] c = "-" -> 45
          [] c = "a" -> 97 [] c = "b" -> 98 [] c = "x" -> 120]

CharCode(c) == CharCodes[c]

DigitVal(c) == CharCode(c) - 48

DigitChars == <<"0", "1", "2", "3", "4", "5", "6", "7", "8", "9">>

DigitChar(d) == DigitChars[d + 1]

\* Length of the longest prefix of s made of decimal digits.
RECURSIVE DigitPrefixLen(_)
DigitPrefixLen(s) ==
    IF s = <<>> \/ Head(s) \notin Digits THEN 0 ELSE 1 + DigitPrefixLen(Tail(s))

\* Value of a sequence of decimal digits.
RECURSIVE DigitsValue(_)
DigitsValue(s) ==
    IF s = <<>> THEN 0
    ELSE 10 * DigitsValue(SubSeq(s, 1, Len(s) - 1)) + DigitVal(s[Len(s)])

\* parseInt applied to a string: an optional sign, then the leading digits;
\* NaN when there is none.
parseIntStr(s) ==
    LET neg == s # <<>> /\ Head(s) = "-"
        body == IF neg THEN Tail(s) ELSE s
        n == DigitPrefixLen(body)
    IN  IF n = 0 THEN NaN
        ELSE Num((IF neg THEN -1 ELSE 1) * DigitsValue(SubSeq(body, 1, n)))

\* parseInt(x): x is first converted to a string; undefined, null and NaN
\* read "undefined", "null", "NaN", which hold no digits.
parseInt(x) ==
    CASE x.t = "number" -> x
      [] x.t = "string" -> parseIntStr(x.v)
      [] OTHER -> NaN

\* ToNumber, as applied by < and > to a string operand compared with a number:
\* the empty string is 0, a whole decimal literal its value, anything else NaN.
ToNumber(x) ==
    CASE x.t = "number" -> x
      [] x.t = "string" ->
            IF x.v = <<>> THEN Num(0)
            ELSE LET neg == Head(x.v) = "-"
                     body == IF neg THEN Tail(x.v) ELSE x.v
                 IN  IF body # <<>> /\ DigitPrefixLen(body) = Len(body)
                     THEN Num((IF neg THEN -1 ELSE 1) * DigitsValue(body))
                     ELSE NaN
      [] x.t = "null" -> Num(0)
      [] OTHER -> NaN

\* ToBoolean.
Truthy(x) ==
    CASE x.t = "undefined" -> FALSE
      [] x.t = "null" -> FALSE
      [] x.t = "NaN" -> FALSE
      [] x.t = "number" -> x.v # 0
      [] x.t = "string" -> x.v # <<>>
      [] OTHER -> TRUE

\* x || 0
OrZero(x) == IF Truthy(x) THEN x ELSE Num(0)

\* a < b and a > b where at least one operand is a number: both are
\* converted with ToNumber and every comparison with NaN is false.
NumLt(a, b) ==
    LET x == ToNumber(a)
        y == ToNumber(b)
    IN  IsNum(x) /\ IsNum(y) /\ x.v < y.v

NumGt(a, b) == NumLt(b, a)

\* a < b on two strings: by code units, a proper prefix first.
RECURSIVE StrLt(_, _)
StrLt(a, b) ==
    IF b = <<>> THEN FALSE
    ELSE IF a = <<>> THEN TRUE
    ELSE IF CharCode(Head(a)) # CharCode(Head(b))
         THEN CharCode(Head(a)) < CharCode(Head(b))
         ELSE StrLt(Tail(a), Tail(b))

StrGt(a, b) == StrLt(b, a)

\* a === b on primitive values.
StrictEq(a, b) == a.t = b.t /\ a.t # "NaN" /\ a = b

\* ------------------------------------------------------- fractional numbers

\* A number with a fractional part, held as a quotient of integers in lowest
\* terms with d >= 0; the quotient 0 / 0, whose d is 0, is NaN.  The code's doubles agree
\* with these quotients on every comparison and rounding made below as long
\* as no value lies within one ulp of a rounding tie it does not hit exactly.
RECURSIVE GCD(_, _)
GCD(a, b) == IF b = 0 THEN a ELSE GCD(b, a % b)

Rat(n, d) ==
    LET g == GCD(IF n < 0 THEN -n ELSE n, d)
    IN  IF g = 0 THEN [n |-> 0, d |-> 0] ELSE [n |-> n \div g, d |-> d \div g]

RatAdd(a, b) == Rat(a.n * b.d + b.n * a.d, a.d * b.d)

RatSub(a, b) == Rat(a.n * b.d - b.n * a.d, a.d * b.d)

RatMul(a, b) == Rat(a.n * b.n, a.d * b.d)

\* a / k for a count k >= 0.
RatDivInt(a, k) == Rat(a.n, a.d * k)

Pow10(k) == 10 ^ k

\* The strings Number.prototype.toFixed returns: sign, digits read as one
\* integer, and the number of digits after the point; "NaN" for NaN.
Fixed(neg, mag, digits) ==
    [t |-> "string", nan |-> FALSE, neg |-> neg, mag |-> mag, digits |-> digits]

FixedNaN == [t |-> "string", nan |-> TRUE, neg |-> FALSE, mag |-> 0, digits |-> 0]

\* x.toFixed(digits): a negative x is formatted as "-" and -x; the digits
\* are the integer closest to x * 10^digits, the larger one on a tie.
toFixed(x, digits) ==
    IF x.d = 0 THEN FixedNaN
    ELSE LET a == IF x.n < 0 THEN -x.n ELSE x.n
         IN  Fixed(x.n < 0, (2 * a * Pow10(digits) + x.d) \div (2 * x.d), digits)

\* The number a toFixed string converts to (s / 100, parseFloat(s), s <= 100).
FixedValue(s) ==
    IF s.nan THEN Rat(0, 0)
    ELSE Rat((IF s.neg THEN -1 ELSE 1) * s.mag, Pow10(s.digits))

\* ------------------------------------------------------------------- dates

\* new Date(s) for a date-time string without zone ("2024-01-02T09:30:00"),
\* held as its calendar fields: read as local time.  The value is the instant
\* in minutes since midnight UTC of day 0; z is the local offset from UTC, in
\* minutes, positive east of Greenwich.
DateFromTimestamp(ts, z) == ts.day * 1440 + ts.hour * 60 + ts.minute - z

\* new Date(s) for a date-only string ("2024-01-02", the value of an
\* <input type="date">), held as <<day>>: read as midnight UTC.
DateFromDateOnly(s) == s[1] * 1440

\* Date.prototype.getHours / getMinutes: local wall-clock fields of an instant.
getHours(d, z) == ((d + z) % 1440) \div 60

getMinutes(d, z) == ((d + z) % 1440) % 60

\* Date.prototype.getDay: the local weekday of an instant, 0 for Sunday;
\* day 0 is 1 January 1970, a Thursday.
getDay(d, z) == (((d + z) \div 1440) + 4) % 7

\* d.toTimeString().slice(0, 5): "HH:MM" in local time.
toTimeString5(d, z) ==
    LET h == getHours(d, z)
        m == getMinutes(d, z)
    IN  <<DigitChar(h \div 10), DigitChar(h % 10), ":",
          DigitChar(m \div 10), DigitChar(m % 10)>>

\* ------------------------------------------------------------------ trades

TS(d, h, m) == [day |-> d, hour |-> h, minute |-> m]

\* rule_adherence with n entries of which the first k are followed.
RA(k, n) == Arr([i \in 1..n |-> [rule_id |-> i, followed |-> i <= k]])

\* A trade as the API returns it, without its id.  trade_type and direction
\* are compared for equality only and are plain strings, "" when missing.
Trade(ts, sid, type, dir, conf, ra, pnl) ==
    [buy_timestamp |-> ts, strategy_id |-> sid, trade_type |-> type,
     direction |-> dir, confidence |-> conf, rule_adherence |-> ra, pnl |-> pnl]

\* Trades that differ in strategy, type and direction; the first two are
\* the Long winner and the Short loser of the documented scenario, one has
\* no confidence and one no pnl.
AttributePool ==
    { Trade(TS(1, 9, 0), Num(1), "Stock", "Long", Num(5), RA(1, 1), Num(100)),
      Trade(TS(2, 10, 0), Num(1), "Stock", "Short", Num(2), RA(1, 2), Num(-50)),
      Trade(TS(1, 11, 0), Num(2), "Call", "Long", Num(3), Undefined, Num(30)),
      Trade(TS(0, 12, 0), Null, "", "Short", Num(1), Undefined, Num(-10)),
      Trade(TS(1, 13, 0), Null, "Stock", "Long", Undefined, Undefined, Num(20)),
      Trade(TS(2, 14, 0), Num(1), "Call", "Short", Num(4), Arr(<<>>), Undefined) }

\* Trades that differ in buy_timestamp: before, on and after day 1, and
\* before, at and after 09:30.
DatePool ==
    { Trade(TS(d[1], d[2], d[3]), Num(1), "Stock", "Long", Num(3), Undefined, Num(10)) :
        d \in { <<0, 23, 30>>, <<1, 0, 0>>, <<1, 9, 29>>, <<1, 9, 30>>,
                <<1, 9, 31>>, <<1, 23, 59>>, <<2, 0, 30>> } }

\* Trades that differ in confidence: missing, null, numbers inside and
\* outside 1..5, a decimal string, a string without digits and one that
\* starts with a digit.
ConfidencePool ==
    { Trade(TS(1, 9, 30), Num(1), "Stock", "Long", c, Undefined, Num(10)) :
        c \in { Undefined, Null, Num(0), Num(1), Num(3), Num(5), Num(6),
                Str(<<"3">>), Str(<<"a", "b">>), Str(<<"4", "x">>) } }

\* Trades that differ in rule_adherence: missing, null, empty, and lists
\* followed to 100, 80, 75, 50 and 0 percent.
RulePool ==
    { Trade(TS(1, 9, 30), Num(1), "Stock", "Long", Num(3), ra, Num(10)) :
        ra \in { Undefined, Null, Arr(<<>>), RA(5, 5), RA(4, 5), RA(3, 4),
                 RA(1, 2), RA(0, 1) } }

\* r_multiple as the API returns it: a number with a fractional part.
RNum(n, d) == [t |-> "number", n |-> n, d |-> d]

\* The fields of a trade that only computeAnalytics reads.
Outcome(r, qty, price) == [r_multiple |-> r, qty |-> qty, buy_price |-> price]

\* Trades that differ in outcome, weekday and hour.  Days 3, 4 and 5 are a
\* Sunday, a Monday and a Tuesday.  The first two are the Long winner
\* (pnl 100, r 1) and the Short loser (pnl -50, r -0.5) of the documented
\* scenario, the loser bought before the winner; then a second winner
\* bought between them, a trade with r_multiple 0 and a pnl of 1, and one
\* without pnl, r_multiple, quantity and price.
AnalyticsPool ==
    { Trade(TS(5, 9, 30), Num(1), "Stock", "Long", Num(5), RA(1, 1), Num(100))
        @@ Outcome(RNum(1, 1), Num(10), Num(25)),
      Trade(TS(4, 14, 0), Num(1), "Stock", "Short", Num(2), RA(1, 2), Num(-50))
        @@ Outcome(RNum(-1, 2), Num(5), Num(40)),
      Trade(TS(5, 9, 0), Num(2), "Call", "Long", Num(4), RA(0, 1), Num(30))
        @@ Outcome(RNum(3, 8), Num(1), Num(3)),
      Trade(TS(3, 23, 0), Null, "", "Short", Num(3), Undefined, Num(1))
        @@ Outcome(RNum(0, 1), Num(2), Num(50)),
      Trade(TS(4, 0, 15), Num(2), "Call", "Long", Num(1), Undefined, Undefined)
        @@ Outcome(Undefined, Undefined, Undefined) }

\* The planned exit of a trade: target and stop.
Plan(target, stop) == [target |-> target, stop |-> stop]

\* Trades that differ in confidence, rule adherence, outcome and plan, all
\* bought in the same hour: a high-confidence winner that followed its rule,
\* with target 35 and stop 20 around a price of 25; a low-confidence winner
\* without rule_adherence whose stop is its price; a high-confidence loser
\* that broke its rule and has no target; a winner without confidence, with
\* an empty rule_adherence and a null stop; a low-confidence loser with price
\* 0, no target and a null stop.
BehaviorPool ==
    { Trade(TS(4, 10, 0), Num(1), "Stock", "Long", Num(5), RA(1, 1), Num(100))
        @@ Outcome(RNum(1, 1), Num(10), Num(25)) @@ Plan(Num(35), Num(20)),
      Trade(TS(4, 10, 0), Num(1), "Stock", "Long", Num(2), Undefined, Num(40))
        @@ Outcome(RNum(1, 2), Num(5), Num(40)) @@ Plan(Num(50), Num(40)),
      Trade(TS(4, 10, 0), Num(2), "Call", "Short", Num(4), RA(0, 1), Num(-50))
        @@ Outcome(RNum(-1, 2), Num(1), Num(3)) @@ Plan(Undefined, Num(2)),
      Trade(TS(4, 10, 0), Num(2), "Call", "Long", Undefined, Arr(<<>>), Num(30))
        @@ Outcome(RNum(3, 8), Num(2), Num(50)) @@ Plan(Num(60), Null),
      Trade(TS(4, 10, 0), Null, "", "Short", Num(3), RA(1, 2), Num(-10))
        @@ Outcome(RNum(-1, 4), Num(1), Num(0)) @@ Plan(Undefined, Null) }

\* A field of an object: undefined when the object does not have it.
Get(obj, key) == IF key \in DOMAIN obj THEN obj[key] ELSE Undefined

\* The API's lists: the k-th trade of a response carries id k, so ids are
\* unique within a list.
WithIds(bodies) == [i \in 1..Len(bodies) |-> [id |-> i] @@ bodies[i]]

TradeLists(pool) ==
    UNION { { WithIds(b) : b \in [1..n -> pool] } : n \in 0..MaxTrades }

\* The lists of trades with outcomes.
AnalyticsLists ==
    UNION { { WithIds(b) : b \in [1..n -> AnalyticsPool] } : n \in 0..MaxAnalyticsTrades }

\* The lists of trades with plans.
BehaviorLists ==
    UNION { { WithIds(b) : b \in [1..n -> BehaviorPool] } : n \in 0..MaxAnalyticsTrades }

\* The strategies the API returns: none, or the two the trades refer to.
StrategyLists ==
    { <<>>,
      <<[id |-> Num(1), name |-> "Breakout"], [id |-> Num(2), name |-> "Reversal"]>> }

\* Host time zones: New York (winter), UTC, Berlin (summer).
TimeZones == {-300, 0, 120}

\* ----------------------------------------------------------------- filters

FilterKeys ==
    {"startDate", "endDate", "startTime", "endTime", "strategyId", "tradeType",
     "direction", "followed", "confidenceMin", "confidenceMax"}

\* Variant: the confidence range starts at 0.
InitialFiltersFromZero ==
    [startDate |-> <<>>, endDate |-> <<>>,
     startTime |-> <<"0", "0", ":", "0", "0">>,
     endTime |-> <<"2", "3", ":", "5", "9">>,
     strategyId |-> <<>>, tradeType |-> "All", direction |-> "All",
     followed |-> "All", confidenceMin |-> Num(0), confidenceMax |-> Num(5)]

\* useState({...}): the filter state the component starts with.
InitialFilters ==
    [startDate |-> <<>>, endDate |-> <<>>,
     startTime |-> <<"0", "0", ":", "0", "0">>,
     endTime |-> <<"2", "3", ":", "5", "9">>,
     strategyId |-> <<>>, tradeType |-> "All", direction |-> "All",
     followed |-> "All", confidenceMin |-> Num(1), confidenceMax |-> Num(5)]

\* e.target.value of each control: a date input gives '' or a date, held as
\* <<day>>; a time input '' or "HH:MM"; a number input '' or a decimal
\* literal; the selects one of their options.
ControlValues(key) ==
    CASE key = "startDate" -> {<<>>, <<1>>}
      [] key = "endDate" -> {<<>>, <<1>>}
      [] key = "startTime" -> {<<"0", "0", ":", "0", "0">>, <<"0", "9", ":", "3", "0">>}
      [] key = "endTime" ->
            {<<"2", "3", ":", "5", "9">>, <<"0", "9", ":", "3", "0">>, <<>>}
      [] key = "strategyId" -> {<<>>, <<"1">>}
      [] key = "tradeType" -> {"All", "Stock"}
      [] key = "direction" -> {"All", "Long", "Short"}
      [] key = "followed" -> {"All", "Followed", "Broken"}
      [] key = "confidenceMin" -> {Str(<<>>), Str(<<"3">>)}
      [] key = "confidenceMax" -> {Str(<<>>), Str(<<"3">>)}

\* Two values of one filter field are the same value.
SameValue(key, a, b) ==
    IF key \in {"confidenceMin", "confidenceMax"} THEN a.t = b.t /\ a.v = b.v
    ELSE a = b

\* ------------------------------------------------------------- applyFilters

\* const buyDate = new Date(trade.buy_timestamp)
buyDate(trade, z) == DateFromTimestamp(trade.buy_timestamp, z)

\* const buyTime = buyDate.toTimeString().slice(0, 5)
buyTime(trade, z) == toTimeString5(buyDate(trade, z), z)

\* The two date early returns: a set bound is parsed with new Date(...).
PassDate(trade, f, z) ==
    /\ ~(f.startDate # <<>> /\ buyDate(trade, z) < DateFromDateOnly(f.startDate))
    /\ ~(f.endDate # <<>> /\ buyDate(trade, z) > DateFromDateOnly(f.endDate))

\* Variant: the time bounds are exclusive.
PassTimeExclusive(trade, f, z) ==
    StrGt(buyTime(trade, z), f.startTime) /\ StrLt(buyTime(trade, z), f.endTime)

\* if (buyTime < filters.startTime || buyTime > filters.endTime) return false
PassTime(trade, f, z) ==
    ~(StrLt(buyTime(trade, z), f.startTime) \/ StrGt(buyTime(trade, z), f.endTime))

\* Variant: the select's string is compared without parseInt.
PassStrategyNoParse(trade, f) ==
    ~(f.strategyId # <<>> /\ ~StrictEq(trade.strategy_id, Str(f.strategyId)))

\* if (filters.strategyId && trade.strategy_id !== parseInt(filters.strategyId))
PassStrategy(trade, f) ==
    ~(f.strategyId # <<>>
      /\ ~StrictEq(trade.strategy_id, parseInt(Str(f.strategyId))))

\* if (filters.tradeType !== 'All' && trade.trade_type !== filters.tradeType)
PassTradeType(trade, f) ==
    ~(f.tradeType # "All" /\ trade.trade_type # f.tradeType)

\* if (filters.direction !== 'All' && trade.direction !== filters.direction)
PassDirection(trade, f) ==
    ~(f.direction # "All" /\ trade.direction # f.direction)

\* const confidence = parseInt(trade.confidence) || 0
confidence(trade) == OrZero(parseInt(trade.confidence))

\* Variant: only the lower bound is tested.
PassConfidenceNoMax(trade, f) == ~NumLt(confidence(trade), f.confidenceMin)

\* if (confidence < filters.confidenceMin || confidence > filters.confidenceMax)
PassConfidence(trade, f) ==
    ~(NumLt(confidence(trade), f.confidenceMin)
      \/ NumGt(confidence(trade), f.confidenceMax))

\* const avgFollowed = trade.rule_adherence ? followed count / length : 1,
\* held as a fraction; 0 / 0 is NaN.
avgFollowed(trade) ==
    IF Truthy(trade.rule_adherence)
    THEN LET ra == trade.rule_adherence.v
         IN  [num |-> Cardinality({i \in 1..Len(ra) : ra[i].followed}),
              den |-> Len(ra)]
    ELSE [num |-> 1, den |-> 1]

\* x < 0.8 and x > 0.8 for a quotient of two small integers: the quotient
\* n / d is the double 0.8 exactly when 5 n = 4 d, and NaN compares false.
LtThreshold(x) == x.den # 0 /\ 5 * x.num < 4 * x.den

GtThreshold(x) == x.den # 0 /\ 5 * x.num > 4 * x.den

\* The rule-adherence block.
PassFollowed(trade, f) ==
    \/ f.followed = "All"
    \/ /\ ~(f.followed = "Followed" /\ LtThreshold(avgFollowed(trade)))
       /\ ~(f.followed = "Broken" /\ GtThreshold(avgFollowed(trade)))

\* The callback of trades.filter: true when no early return is taken.
filterCallback(trade, f, z) ==
    /\ PassDate(trade, f, z)
    /\ PassTime(trade, f, z)
    /\ PassStrategy(trade, f)
    /\ PassTradeType(trade, f)
    /\ PassDirection(trade, f)
    /\ PassConfidence(trade, f)
    /\ PassFollowed(trade, f)

\* Variant: the kept trades are collected newest first.
RECURSIVE arrayFilterReversed(_, _, _)
arrayFilterReversed(trs, f, z) ==
    IF trs = <<>> THEN <<>>
    ELSE arrayFilterReversed(Tail(trs), f, z)
         \o (IF filterCallback(Head(trs), f, z) THEN <<Head(trs)>> ELSE <<>>)

\* Array.prototype.filter with that callback.
RECURSIVE arrayFilter(_, _, _)
arrayFilter(trs, f, z) ==
    IF trs = <<>> THEN <<>>
    ELSE (IF filterCallback(Head(trs), f, z) THEN <<Head(trs)>> ELSE <<>>)
         \o arrayFilter(Tail(trs), f, z)

\* applyFilters(trades), reading the filters state f and the host zone z.
applyFilters(trs, f, z) == arrayFilter(trs, f, z)

\* --------------------------------------------------------- computeAnalytics

\* t.pnl || 0 of a trade whose pnl is a number or missing.
pnlOrZero(trade) == OrZero(trade.pnl).v

RECURSIVE SumPnl(_)
SumPnl(trs) == IF trs = <<>> THEN 0 ELSE pnlOrZero(Head(trs)) + SumPnl(Tail(trs))

RECURSIVE MapPnl(_)
MapPnl(trs) == IF trs = <<>> THEN <<>> ELSE <<pnlOrZero(Head(trs))>> \o MapPnl(Tail(trs))

RECURSIVE Insert(_, _)
Insert(x, s) ==
    IF s = <<>> THEN <<x>>
    ELSE IF x < Head(s) THEN <<x>> \o s
    ELSE <<Head(s)>> \o Insert(x, Tail(s))

\* Array.prototype.sort((a, b) => a - b), which is stable.
RECURSIVE SortAscending(_)
SortAscending(s) ==
    IF s = <<>> THEN <<>> ELSE Insert(s[Len(s)], SortAscending(SubSeq(s, 1, Len(s) - 1)))

RECURSIVE SeqMax(_)
SeqMax(s) ==
    IF Len(s) = 1 THEN s[1]
    ELSE LET m == SeqMax(Tail(s)) IN IF Head(s) > m THEN Head(s) ELSE m

Min2(a, b) == IF a < b THEN a ELSE b

\* sortedPnL.slice(0, -1).reduce((drawdown, pnl, i) => { peak = max of
\* sortedPnL.slice(0, i + 1); return Math.min(drawdown, pnl - peak) }, 0),
\* after the first n elements: a number.
RECURSIVE drawdownReduce(_, _)
drawdownReduce(sortedPnL, n) ==
    IF n = 0 THEN 0
    ELSE Min2(drawdownReduce(sortedPnL, n - 1),
              sortedPnL[n] - SeqMax(SubSeq(sortedPnL, 1, n)))

\* Variant: spreading a value that is not iterable passes no argument.
SpreadNeverThrows(x) == FALSE

\* Spread syntax in a call, f(...x): x must be iterable; a number is not, and
\* the call throws a TypeError.  An array spreads to its elements.
SpreadThrows(x) == x.t # "array"

SpreadArguments(x) == IF x.t = "array" THEN x.v ELSE <<>>

\* Math.min of a non-empty argument list.
RECURSIVE MathMin(_)
MathMin(s) == IF Len(s) = 1 THEN s[1] ELSE Min2(Head(s), MathMin(Tail(s)))

\* The empty-list return of FailDashboard.jsx.  Objects are functions from
\* their keys.
EmptyObject == [k \in {} |-> 0]

emptyAnalytics ==
    [totalTrades |-> 0, totalPnl |-> 0, winRate |-> 0, avgR |-> 0,
     longPnl |-> 0, shortPnl |-> 0,
     byStrategy |-> EmptyObject, byRule |-> EmptyObject, byType |-> EmptyObject,
     byHour |-> EmptyObject, byDayOfWeek |-> EmptyObject,
     maxDrawdown |-> 0, sharpe |-> 0, avgRiskReward |-> 0,
     maxConsecutiveWins |-> 0, maxConsecutiveLosses |-> 0,
     behavioral |-> [overconfidence |-> "", ruleBreakImpact |-> ""],
     equityCurve |-> <<>>, heatmapPnL |-> <<>>]

\* The empty-list return of OldAnalytics.jsx.
emptyAnalyticsOld == [totalTrades |-> 0, totalPnl |-> 0, winRate |-> 0, avgR |-> 0]

RECURSIVE FilterDirection(_, _)
FilterDirection(trs, dir) ==
    IF trs = <<>> THEN <<>>
    ELSE (IF Head(trs).direction = dir THEN <<Head(trs)>> ELSE <<>>)
         \o FilterDirection(Tail(trs), dir)

\* totalTrades, totalPnl, longPnl and shortPnl; x || 0 of a number is x.
totals(filteredTrades) ==
    [totalTrades |-> Len(filteredTrades),
     totalPnl |-> SumPnl(filteredTrades),
     longPnl |-> SumPnl(FilterDirection(filteredTrades, "Long")),
     shortPnl |-> SumPnl(FilterDirection(filteredTrades, "Short"))]

\* t.r_multiple || 0
rMultipleOrZero(trade) ==
    LET r == Get(trade, "r_multiple")
    IN  IF r.t = "number" /\ r.n # 0 THEN Rat(r.n, r.d) ELSE Rat(0, 1)

\* (t.r_multiple || 0) > 0
isWinner(trade) == rMultipleOrZero(trade).n > 0

\* filteredTrades.filter(t => (t.r_multiple || 0) > 0).length
countWins(trs) == Cardinality({i \in 1..Len(trs) : isWinner(trs[i])})

\* reduce((sum, t) => sum + (t.r_multiple || 0), 0)
RECURSIVE SumR(_)
SumR(trs) ==
    IF trs = <<>> THEN Rat(0, 1)
    ELSE RatAdd(SumR(SubSeq(trs, 1, Len(trs) - 1)), rMultipleOrZero(trs[Len(trs)]))

\* (t.qty * t.buy_price * 0.01) || 0: a missing factor makes the product NaN.
riskOrZero(trade) ==
    LET q == ToNumber(Get(trade, "qty"))
        p == ToNumber(Get(trade, "buy_price"))
    IN  IF IsNum(q) /\ IsNum(p) THEN Rat(q.v * p.v, 100) ELSE Rat(0, 1)

RECURSIVE SumRisk(_)
SumRisk(trs) ==
    IF trs = <<>> THEN Rat(0, 1)
    ELSE RatAdd(SumRisk(SubSeq(trs, 1, Len(trs) - 1)), riskOrZero(trs[Len(trs)]))

\* One group once both of its loops have run.  byStrategy, byRule and
\* byType carry avgRisk and expectancy, byHour and byDayOfWeek do not.
\* expectancy is computed from the winRate and avgR strings.
groupStats(members, withRisk) ==
    LET n == Len(members)
        pnl == SumPnl(members)
        wins == countWins(members)
        winRate == toFixed(Rat(wins * 100, n), 1)
        avgR == toFixed(Rat(pnl, n * 1000), 2)
        w == RatDivInt(FixedValue(winRate), 100)
    IN  IF withRisk
        THEN [trades |-> n, pnl |-> pnl, wins |-> wins,
              avgRisk |-> toFixed(RatDivInt(SumRisk(members), n), 2),
              expectancy |->
                  toFixed(RatSub(RatMul(w, FixedValue(avgR)), RatSub(Rat(1, 1), w)), 2),
              winRate |-> winRate, avgR |-> avgR]
        ELSE [trades |-> n, pnl |-> pnl, wins |-> wins,
              winRate |-> winRate, avgR |-> avgR]

\* An object built by one forEach over <<key, trade>> entries: a key for
\* every entry, holding the statistics of the entries with that key.
groupBy(entries, withRisk) ==
    [k \in {entries[i][1] : i \in 1..Len(entries)} |->
        LET mine == SelectSeq(entries, LAMBDA e : e[1] = k)
        IN  groupStats([i \in 1..Len(mine) |-> mine[i][2]], withRisk)]

\* strategies.find(s => s.id === t.strategy_id)?.name || 'No Strategy'
stratName(trade, strats) ==
    LET hits == SelectSeq(strats, LAMBDA s : StrictEq(s.id, trade.strategy_id))
    IN  IF hits # <<>> /\ hits[1].name # "" THEN hits[1].name ELSE "No Strategy"

\* String(n) of a non-negative integer.
RECURSIVE NumberToString(_)
NumberToString(n) ==
    IF n < 10 THEN <<DigitChar(n)>>
    ELSE NumberToString(n \div 10) \o <<DigitChar(n % 10)>>

\* `${t.strategy_id}` in a template literal.
strategyIdText(sid) ==
    CASE sid.t = "number" -> NumberToString(sid.v)
      [] sid.t = "null" -> <<"n", "u", "l", "l">>
      [] OTHER -> <<"u", "n", "d", "e", "f", "i", "n", "e", "d">>

\* `${t.strategy_id}_${ra.rule_id}_${ra.followed ? 'Followed' : 'Broken'}`,
\* held as its three parts.
ruleKey(trade, ra) ==
    <<strategyIdText(trade.strategy_id), ra.rule_id,
      IF ra.followed THEN "Followed" ELSE "Broken">>

\* t.rule_adherence?.forEach(...): one entry per adherence record.
RECURSIVE ruleEntries(_)
ruleEntries(trs) ==
    IF trs = <<>> THEN <<>>
    ELSE LET t == Head(trs)
             ra == IF t.rule_adherence.t = "array" THEN t.rule_adherence.v ELSE <<>>
         IN  [i \in 1..Len(ra) |-> <<ruleKey(t, ra[i]), t>>] \o ruleEntries(Tail(trs))

\* t.trade_type || 'Other'
typeKey(trade) == IF trade.trade_type # "" THEN trade.trade_type ELSE "Other"

\* The five groupings.
groupings(filteredTrades, strats, z) ==
    LET n == Len(filteredTrades)
    IN  [byStrategy |->
            groupBy([i \in 1..n |-> <<stratName(filteredTrades[i], strats),
                                      filteredTrades[i]>>], TRUE),
         byRule |-> groupBy(ruleEntries(filteredTrades), TRUE),
         byType |->
            groupBy([i \in 1..n |-> <<typeKey(filteredTrades[i]), filteredTrades[i]>>],
                    TRUE),
         byHour |->
            groupBy([i \in 1..n |-> <<getHours(buyDate(filteredTrades[i], z), z),
                                      filteredTrades[i]>>], FALSE),
         byDayOfWeek |->
            groupBy([i \in 1..n |-> <<getDay(buyDate(filteredTrades[i], z), z),
                                      filteredTrades[i]>>], FALSE)]

\* const maxDrawdown = sortedPnL.length > 1
\*     ? Math.min(...sortedPnL.slice(0, -1).reduce(..., 0), 0) : 0
\* The reduce yields a number, which the call then spreads.
maxDrawdown(sortedPnL) ==
    IF Len(sortedPnL) > 1
    THEN LET reduced == Num(drawdownReduce(sortedPnL, Len(sortedPnL) - 1))
         IN  IF SpreadThrows(reduced) THEN [threw |-> TRUE, value |-> 0]
             ELSE [threw |-> FALSE,
                   value |-> MathMin(SpreadArguments(reduced) \o <<0>>)]
    ELSE [threw |-> FALSE, value |-> 0]

\* The same statement of OldAnalytics.jsx, which has no length test: for one
\* trade the reduce runs over the empty slice and yields its initial value 0.
maxDrawdownOld(sortedPnL) ==
    LET reduced == Num(drawdownReduce(sortedPnL, Len(sortedPnL) - 1))
    IN  IF SpreadThrows(reduced) THEN [threw |-> TRUE, value |-> 0]
        ELSE [threw |-> FALSE,
              value |-> MathMin(SpreadArguments(reduced) \o <<0>>)]

\* const sharpe = totalPnl / Math.sqrt(totalTrades) || 0: 0 when the
\* quotient is 0 or NaN, otherwise the quotient, held as its numerator and
\* the count under the root.
sharpe(totalPnl, totalTrades) ==
    IF totalPnl = 0 THEN 0 ELSE [pnl |-> totalPnl, overRootOf |-> totalTrades]

\* ((t.target || 0) - (t.buy_price || 0)) / ((t.buy_price || 0) - (t.stop || 0)):
\* a quotient with denominator 0 is Infinity, -Infinity or, for 0 / 0, NaN.
riskReward(trade) ==
    LET target == OrZero(Get(trade, "target")).v
        price == OrZero(Get(trade, "buy_price")).v
        stop == OrZero(Get(trade, "stop")).v
    IN  IF price - stop < 0 THEN Rat(price - target, stop - price)
        ELSE Rat(target - price, price - stop)

\* x || 0 of a number: 0 and NaN give 0.
RatOrZero(x) == IF x.n = 0 THEN Rat(0, 1) ELSE x

\* filteredTrades.reduce((sum, t) => sum + <quotient> || 0, 0): the || applies
\* to the sum with the quotient added, not to the quotient.
RECURSIVE riskRewardReduce(_)
riskRewardReduce(trs) ==
    IF trs = <<>> THEN Rat(0, 1)
    ELSE RatOrZero(RatAdd(riskRewardReduce(SubSeq(trs, 1, Len(trs) - 1)),
                          riskReward(trs[Len(trs)])))

\* const avgRiskReward = <reduce> / totalTrades || 0
avgRiskReward(filteredTrades) ==
    RatOrZero(RatDivInt(riskRewardReduce(filteredTrades), Len(filteredTrades)))

\* t.r_multiple > 0: false for a missing or null r_multiple.
rMultiplePositive(trade) ==
    LET r == Get(trade, "r_multiple") IN r.t = "number" /\ r.n > 0

\* The forEach of computeConsecutive from the state (max, current).
RECURSIVE consecutiveLoop(_, _, _, _)
consecutiveLoop(trs, isWin, max, current) ==
    IF trs = <<>> THEN max
    ELSE IF rMultiplePositive(Head(trs)) = isWin
         THEN consecutiveLoop(Tail(trs), isWin,
                              IF current + 1 > max THEN current + 1 ELSE max,
                              current + 1)
         ELSE consecutiveLoop(Tail(trs), isWin, max, 0)

computeConsecutive(trs, isWin) == consecutiveLoop(trs, isWin, 0, 0)

\* a <= b where at least one operand is a number.
NumLe(a, b) ==
    LET x == ToNumber(a)
        y == ToNumber(b)
    IN  IsNum(x) /\ IsNum(y) /\ x.v <= y.v

\* group.length ? (group.filter(t => t.r_multiple > 0).length / group.length) * 100 : 0
winRateOf(group) ==
    IF Len(group) # 0
    THEN Rat(Len(SelectSeq(group, rMultiplePositive)) * 100, Len(group))
    ELSE Rat(0, 1)

\* highConfidenceWinRate(trades)
highConfidenceWinRate(trs) ==
    winRateOf(SelectSeq(trs, LAMBDA t : NumGt(OrZero(t.confidence), Num(3))))

\* lowConfidenceWinRate(trades)
lowConfidenceWinRate(trs) ==
    winRateOf(SelectSeq(trs, LAMBDA t : NumLe(OrZero(t.confidence), Num(3))))

\* a < b on two finite numbers.
RatLt(a, b) == a.n * b.d < b.n * a.d

\* The last digits digits of f, with leading zeros.
RECURSIVE FractionText(_, _)
FractionText(f, digits) ==
    IF digits = 0 THEN "" ELSE FractionText(f \div 10, digits - 1) \o ToString(f % 10)

\* The characters of a toFixed string, as a template literal inserts them.
FixedText(s) ==
    IF s.nan THEN "NaN"
    ELSE (IF s.neg THEN "-" ELSE "") \o ToString(s.mag \div Pow10(s.digits))
         \o (IF s.digits = 0 THEN "" ELSE "." \o FractionText(s.mag, s.digits))

\* behavioral.overconfidence
overconfidence(trs) ==
    IF RatLt(highConfidenceWinRate(trs), lowConfidenceWinRate(trs))
    THEN "Potential overconfidence: High confidence trades win "
         \o FixedText(toFixed(highConfidenceWinRate(trs), 1)) \o "% vs. low: "
         \o FixedText(toFixed(lowConfidenceWinRate(trs), 1)) \o "%"
    ELSE ""

\* t.rule_adherence?.some(ra => !ra.followed): undefined, which filter takes
\* as false, when rule_adherence is missing or null.
someBroken(trade) ==
    /\ trade.rule_adherence.t = "array"
    /\ \E i \in 1..Len(trade.rule_adherence.v) : ~trade.rule_adherence.v[i].followed

\* t.rule_adherence?.every(ra => ra.followed): undefined likewise.
everyFollowed(trade) ==
    /\ trade.rule_adherence.t = "array"
    /\ \A i \in 1..Len(trade.rule_adherence.v) : trade.rule_adherence.v[i].followed

\* ruleBreakImpact(trades)
ruleBreakImpact(trs) ==
    "Win rate when rules broken: "
    \o FixedText(toFixed(winRateOf(SelectSeq(trs, someBroken)), 1))
    \o "% vs. followed: "
    \o FixedText(toFixed(winRateOf(SelectSeq(trs, everyFollowed)), 1)) \o "%"

RECURSIVE InsertByBuyTimestamp(_, _, _)
InsertByBuyTimestamp(x, s, z) ==
    IF s = <<>> THEN <<x>>
    ELSE IF buyDate(x, z) < buyDate(Head(s), z) THEN <<x>> \o s
    ELSE <<Head(s)>> \o InsertByBuyTimestamp(x, Tail(s), z)

\* trades.sort((a, b) => new Date(a.buy_timestamp) - new Date(b.buy_timestamp)):
\* stable, and in place: the array it is called on holds the sorted order
\* afterwards.
RECURSIVE sortByBuyTimestamp(_, _)
sortByBuyTimestamp(trs, z) ==
    IF trs = <<>> THEN <<>>
    ELSE InsertByBuyTimestamp(trs[Len(trs)],
                              sortByBuyTimestamp(SubSeq(trs, 1, Len(trs) - 1), z), z)

\* t.buy_timestamp.slice(0, 10): the date part of the timestamp as written.
sliceDate(ts) == ts.day

\* computeEquityCurve(trades): the points it returns, and the order it
\* leaves its argument in.
computeEquityCurve(trs, z) ==
    LET sorted == sortByBuyTimestamp(trs, z)
    IN  [list |-> sorted,
         points |-> [k \in 1..Len(sorted) |->
                        [date |-> sliceDate(sorted[k].buy_timestamp),
                         pnl |-> SumPnl(SubSeq(sorted, 1, k))]]]

\* computeHeatmapPnL(trades): row day + 1, column hour + 1.
computeHeatmapPnL(trs, z) ==
    [day \in 1..7 |->
        [hour \in 1..24 |->
            SumPnl(SelectSeq(trs, LAMBDA t :
                       /\ getDay(buyDate(t, z), z) = day - 1
                       /\ getHours(buyDate(t, z), z) = hour - 1))]]

\* The body of computeAnalytics below its early return, reading the
\* strategies state and the host zone: whether it throws, the object it
\* returns otherwise, and the order it leaves its argument in.  The drawdown
\* statement comes after the groupings and before the run lengths, the
\* equity curve and the heatmap; the heatmap reads the list the equity curve
\* has sorted.
analyze(filteredTrades, strats, z) ==
    LET dd == maxDrawdown(SortAscending(MapPnl(filteredTrades)))
        tot == totals(filteredTrades)
        n == Len(filteredTrades)
        grp == groupings(filteredTrades, strats, z)
        curve == computeEquityCurve(filteredTrades, z)
    IN  IF dd.threw
        THEN [threw |-> TRUE, value |-> emptyAnalytics, list |-> filteredTrades]
        ELSE [threw |-> FALSE,
              value |->
                 [totalTrades |-> tot.totalTrades,
                  totalPnl |-> tot.totalPnl,
                  winRate |-> toFixed(Rat(countWins(filteredTrades) * 100, n), 1),
                  avgR |-> toFixed(RatDivInt(SumR(filteredTrades), n), 2),
                  longPnl |-> tot.longPnl, shortPnl |-> tot.shortPnl,
                  byStrategy |-> grp.byStrategy, byRule |-> grp.byRule,
                  byType |-> grp.byType, byHour |-> grp.byHour,
                  byDayOfWeek |-> grp.byDayOfWeek,
                  maxDrawdown |-> dd.value,
                  sharpe |-> sharpe(tot.totalPnl, tot.totalTrades),
                  avgRiskReward |-> avgRiskReward(filteredTrades),
                  maxConsecutiveWins |-> computeConsecutive(filteredTrades, TRUE),
                  maxConsecutiveLosses |-> computeConsecutive(filteredTrades, FALSE),
                  behavioral |->
                     [overconfidence |-> overconfidence(filteredTrades),
                      ruleBreakImpact |-> ruleBreakImpact(filteredTrades)],
                  equityCurve |-> curve.points,
                  heatmapPnL |-> computeHeatmapPnL(curve.list, z)],
              list |-> curve.list]

\* Variant: the empty list is not returned early.
computeAnalyticsNoEarlyReturn(filteredTrades, strats, z) ==
    analyze(filteredTrades, strats, z)

\* computeAnalytics(filteredTrades) of FailDashboard.jsx.
computeAnalytics(filteredTrades, strats, z) ==
    IF Len(filteredTrades) = 0
    THEN [threw |-> FALSE, value |-> emptyAnalytics, list |-> filteredTrades]
    ELSE analyze(filteredTrades, strats, z)

\* computeAnalytics(filteredTrades) of OldAnalytics.jsx: whether the call
\* throws, and the totals it returns otherwise.
computeAnalyticsOld(filteredTrades) ==
    IF Len(filteredTrades) = 0 THEN [threw |-> FALSE, value |-> emptyAnalyticsOld]
    ELSE LET dd == maxDrawdownOld(SortAscending(MapPnl(filteredTrades)))
             tot == totals(filteredTrades)
         IN  IF dd.threw THEN [threw |-> TRUE, value |-> emptyAnalyticsOld]
             ELSE [threw |-> FALSE,
                   value |-> [totalTrades |-> tot.totalTrades,
                              totalPnl |-> tot.totalPnl,
                              longPnl |-> tot.longPnl, shortPnl |-> tot.shortPnl,
                              maxDrawdown |-> dd.value]]

\* ------------------------------------------------------------------- state

VARIABLES
    tz,               \* the host's offset from UTC, in minutes
    loading,          \* the loading state: true until fetchTrades has ended
    trades,           \* the trades state
    strategies,       \* the strategies state
    filters,          \* the filters state
    filtered,         \* the list applyFilters returned in the last effect run
    filteredAfter,    \* that same array once computeAnalytics has run on it
    analyticsData,    \* the analyticsData state (FailDashboard.jsx)
    threw,            \* the last computeAnalytics call threw (FailDashboard.jsx)
    analyticsDataOld, \* the analyticsData state (OldAnalytics.jsx)
    threwOld,         \* the last computeAnalytics call threw (OldAnalytics.jsx)
    view,             \* the component that is mounted
    token,            \* localStorage holds a token
    location,         \* the route: "view" or "/login"
    error,            \* the error state
    calls,            \* per fetchTrades call: "pending", "ok" or "failed"
    strategyCalls,    \* fetchStrategies calls in flight
    writes            \* write handlers in flight, with the request they await

vars ==
    <<tz, loading, trades, strategies, filters, filtered, filteredAfter,
      analyticsData, threw, analyticsDataOld, threwOld,
      view, token, location, error, calls, strategyCalls, writes>>

\* What the request handlers hold besides the lists.
viewVars == <<view, token, location, error, calls, strategyCalls, writes>>

\* The mount effect of component v with a token in localStorage: fetchTrades()
\* and fetchStrategies() have been called and nothing has come back.
Mounted(v) ==
    /\ view = v
    /\ token = TRUE
    /\ location = "view"
    /\ error = ""
    /\ calls = <<"pending">>
    /\ strategyCalls = 1
    /\ writes = {}

\* useEffect(() => { const filtered = applyFilters(trades);
\*                   setAnalyticsData(computeAnalytics(filtered)) }, [trades, filters])
\* run for the trade list trs and the filters f, call being what the one
\* computeAnalytics call does: when it throws, setAnalyticsData is not
\* reached and analyticsData keeps its value.
RecomputeEffect(trs, f) ==
    \E call \in {computeAnalytics(applyFilters(trs, f, tz), strategies, tz)} :
    \E callOld \in {computeAnalyticsOld(applyFilters(trs, f, tz))} :
        /\ filtered' = applyFilters(trs, f, tz)
        /\ threw' = call.threw
        /\ filteredAfter' = call.list
        /\ analyticsData' = IF call.threw THEN analyticsData ELSE call.value
        /\ threwOld' = callOld.threw
        /\ analyticsDataOld' =
              IF callOld.threw THEN analyticsDataOld ELSE callOld.value

\* The component once mounted: the effect has run on the empty trade list.
Init ==
    /\ tz \in TimeZones
    /\ loading = TRUE
    /\ trades = <<>>
    /\ strategies = <<>>
    /\ filters = InitialFilters
    /\ filtered = applyFilters(<<>>, InitialFilters, tz)
    /\ filteredAfter = computeAnalytics(filtered, <<>>, tz).list
    /\ threw = FALSE
    /\ analyticsData = computeAnalytics(filtered, <<>>, tz).value
    /\ threwOld = FALSE
    /\ analyticsDataOld = computeAnalyticsOld(<<>>).value
    /\ Mounted("Analytics")

\* fetchTrades, res.ok: setTrades(data), then setLoading(false); the effect
\* re-runs for the new list.
fetchTradesOk(data) ==
    /\ loading
    /\ trades' = data
    /\ loading' = FALSE
    /\ RecomputeEffect(data, filters)
    /\ calls' = [calls EXCEPT ![1] = "ok"]
    /\ UNCHANGED <<tz, strategies, filters>>
    /\ UNCHANGED <<view, token, location, error, strategyCalls, writes>>

\* fetchStrategies, res.ok: setStrategies(await res.json()).  strategies is
\* no dependency of the effect, which does not re-run; an empty response
\* leaves the state as it is.
fetchStrategiesOk(data) ==
    /\ strategies = <<>>
    /\ data # <<>>
    /\ strategies' = data
    /\ strategyCalls' = strategyCalls - 1
    /\ UNCHANGED <<tz, loading, trades, filters, filtered, filteredAfter,
                   analyticsData, threw, analyticsDataOld, threwOld>>
    /\ UNCHANGED <<view, token, location, error, calls, writes>>

\* handleFilterChange(key, value), from a control's onChange (the controls
\* are rendered once loading is false); the effect re-runs for the new
\* filters.
handleFilterChange(key, value) ==
    /\ ~loading
    /\ ~SameValue(key, filters[key], value)
    /\ filters' = [filters EXCEPT ![key] = value]
    /\ RecomputeEffect(trades, filters')
    /\ UNCHANGED <<tz, loading, trades, strategies>>
    /\ UNCHANGED viewVars

\* The API returns trades of one pool and the user works the controls keys;
\* the strategies response is still outstanding.
Run(pool, keys) ==
    \/ \E data \in TradeLists(pool) : fetchTradesOk(data)
    \/ \E key \in keys : \E value \in ControlValues(key) :
          handleFilterChange(key, value)

\* The strategy, trade type and direction selects.
Next == Run(AttributePool, {"strategyId", "tradeType", "direction"})

Spec == Init /\ [][Next]_vars

\* The date and time inputs.
NextDate == Run(DatePool, {"startDate", "endDate", "startTime", "endTime"})

SpecDate == Init /\ [][NextDate]_vars

\* The two confidence inputs.
NextConfidence == Run(ConfidencePool, {"confidenceMin", "confidenceMax"})

SpecConfidence == Init /\ [][NextConfidence]_vars

\* The rule adherence select.
NextRule == Run(RulePool, {"followed"})

SpecRule == Init /\ [][NextRule]_vars

\* Trades with outcomes, under the direction select, with the strategies
\* response arriving at any time.
NextAnalytics ==
    \/ \E data \in AnalyticsLists : fetchTradesOk(data)
    \/ \E data \in StrategyLists : fetchStrategiesOk(data)
    \/ \E value \in ControlValues("direction") : handleFilterChange("direction", value)

SpecAnalytics == Init /\ [][NextAnalytics]_vars

\* Trades with plans, under the rule adherence select.
NextBehavior ==
    \/ \E data \in BehaviorLists : fetchTradesOk(data)
    \/ \E value \in ControlValues("followed") : handleFilterChange("followed", value)

SpecBehavior == Init /\ [][NextBehavior]_vars

\* ------------------------------------------------------ requests and views

\* The components that load trades: the Dashboard of Dashboard.jsx that
\* talks to the production host, the one in the same file that talks to
\* API_BASE_URL, the Dashboard of FailDashboard.jsx, and the Analytics of
\* FailDashboard.jsx and of OldAnalytics.jsx.
Views == {"Dashboard", "DashboardApiBase", "FailDashboard", "Analytics", "OldAnalytics"}

Dashboards == {"Dashboard", "DashboardApiBase", "FailDashboard"}

\* The write handlers a control of each component calls, by list.  Only
\* handlers that end in a fetch of a list are followed.
TradeWriteHandlers(v) ==
    CASE v = "Dashboard" ->
            {"handleAddTrade", "handleEditTrade", "handleDeleteTrade",
             "handleUploadCSV", "handleUploadImage"}
      [] v = "DashboardApiBase" ->
            {"handleAddTrade", "handleEditTrade", "handleDeleteTrade",
             "handleUploadCSV", "handleImportFromBroker", "handleUploadImage"}
      [] v = "FailDashboard" ->
            {"handleAddTrade", "handleUpdateTrade", "handleDeleteTrade",
             "handleCsvUpload"}
      [] OTHER -> {}

StrategyWriteHandlers(v) ==
    CASE v = "Dashboard" -> {"handleCreateOrUpdateStrategy", "handleDeleteStrategy"}
      [] v = "DashboardApiBase" ->
            {"handleCreateStrategy", "handleEditStrategy", "handleDeleteStrategy"}
      [] v = "FailDashboard" ->
            {"handleAddStrategy", "handleUpdateStrategy", "handleDeleteStrategy"}
      [] OTHER -> {}

WriteHandlers(v) == TradeWriteHandlers(v) \cup StrategyWriteHandlers(v)

AllWriteHandlers == UNION {WriteHandlers(v) : v \in Views}

\* The handlers that, once the strategy is saved, await one request per rule
\* before they call fetchStrategies.
AwaitsRuleRequests(v, h) ==
    \/ v = "Dashboard" /\ h = "handleCreateOrUpdateStrategy"
    \/ v = "FailDashboard" /\ h \in {"handleAddStrategy", "handleUpdateStrategy"}

\* fetchTrades and fetchStrategies have an else-if branch for status 401.
FetchHandles401(v) == v \in {"Dashboard", "FailDashboard", "Analytics"}

\* The write handlers have one.
WriteHandles401(v) == v = "Dashboard"

\* The list the server returns to the k-th fetchTrades call: every call
\* finds one trade more than the call before.
ServerList(k) ==
    WithIds([i \in 1..k |->
        Trade(TS(1, 9, 0), Num(1), "Stock", "Long", Num(5), RA(1, 1), Num(100))])

\* The strategies the server returns.
ServerStrategies ==
    <<[id |-> Num(1), name |-> "Breakout"], [id |-> Num(2), name |-> "Reversal"]>>

\* How a request can end: an OK status, an OK status with a body that is not
\* JSON, 401, another status, or a rejected fetch.
FetchOutcomes == {"ok", "unparsable", "401", "failed", "exception"}

WriteOutcomes == {"ok", "401", "failed", "exception"}

\* The fetchTrades calls that have not come back.
Pending == {k \in 1..Len(calls) : calls[k] = "pending"}

\* The component is on screen.
IsMounted == location = "view"

\* The write handlers in flight that will call fetchTrades.
TradeWritesInFlight == {w \in writes : w.handler \in TradeWriteHandlers(view)}

\* Variant: setLoading(false) only where the response is handled, not in a
\* finally block, so that a rejected fetch leaves loading as it is.
loadingAfterWithoutFinally(outcome) == outcome = "exception"

\* finally { setLoading(false) }: the loading state after a fetchTrades call
\* has ended in the given way.
loadingAfter(outcome) == FALSE

\* The state after mount of any of the components, in the UTC zone.
InitViews ==
    /\ tz = 0
    /\ loading = TRUE
    /\ trades = <<>>
    /\ strategies = <<>>
    /\ filters = InitialFilters
    /\ filtered = applyFilters(<<>>, InitialFilters, tz)
    /\ filteredAfter = computeAnalytics(filtered, <<>>, tz).list
    /\ threw = FALSE
    /\ analyticsData = computeAnalytics(filtered, <<>>, tz).value
    /\ threwOld = FALSE
    /\ analyticsDataOld = computeAnalyticsOld(<<>>).value
    /\ \E v \in Views : Mounted(v)

\* navigate('/login') after localStorage.removeItem('token').
Logout ==
    /\ token' = FALSE
    /\ location' = "/login"

\* The error state after a fetchTrades call of component v has ended.
errorAfterFetch(v, outcome) ==
    CASE outcome = "ok" -> error
      [] outcome = "unparsable" ->
            IF v \in Dashboards THEN "Invalid server response."
            ELSE "Error fetching trades."
      [] outcome = "401" ->
            IF FetchHandles401(v) THEN error ELSE "Failed to load trades."
      [] outcome = "failed" -> "Failed to load trades."
      [] OTHER -> "Error fetching trades."

\* The k-th fetchTrades call comes back.  An OK body is stored with
\* setTrades, which in the two Analytics components re-runs the effect.
fetchTradesResponse(k, outcome) ==
    /\ IsMounted
    /\ k \in Pending
    /\ calls' = [calls EXCEPT ![k] = IF outcome = "ok" THEN "ok" ELSE "failed"]
    /\ loading' = loadingAfter(outcome)
    /\ error' = errorAfterFetch(view, outcome)
    /\ IF outcome = "401" /\ FetchHandles401(view)
       THEN Logout
       ELSE UNCHANGED <<token, location>>
    /\ trades' = IF outcome = "ok" THEN ServerList(k) ELSE trades
    /\ IF outcome = "ok" /\ view \notin Dashboards
       THEN RecomputeEffect(ServerList(k), filters)
       ELSE UNCHANGED <<filtered, filteredAfter, analyticsData, threw,
                        analyticsDataOld, threwOld>>
    /\ UNCHANGED <<tz, strategies, filters, view, strategyCalls, writes>>

\* A fetchStrategies call comes back.
fetchStrategiesResponse(outcome) ==
    /\ IsMounted
    /\ strategyCalls > 0
    /\ strategyCalls' = strategyCalls - 1
    /\ strategies' = IF outcome = "ok" THEN ServerStrategies ELSE strategies
    /\ IF outcome = "401" /\ FetchHandles401(view)
       THEN Logout
       ELSE UNCHANGED <<token, location>>
    /\ error' = IF view = "FailDashboard" /\ outcome = "exception"
                THEN "Error fetching strategies." ELSE error
    /\ UNCHANGED <<tz, loading, trades, filters, filtered, filteredAfter,
                   analyticsData, threw, analyticsDataOld, threwOld,
                   view, calls, writes>>

\* The Retry button of a Dashboard's error screen: onClick={fetchTrades}.
retry ==
    /\ IsMounted
    /\ view \in Dashboards
    /\ ~loading /\ error # ""
    /\ Len(calls) + Cardinality(TradeWritesInFlight) < MaxFetches
    /\ loading' = TRUE
    /\ error' = ""
    /\ calls' = Append(calls, "pending")
    /\ UNCHANGED <<tz, trades, strategies, filters, filtered, filteredAfter,
                   analyticsData, threw, analyticsDataOld, threwOld,
                   view, token, location, strategyCalls, writes>>

\* A control of the Dashboard screen calls write handler h, which sends its
\* request.
startWrite(h) ==
    /\ IsMounted
    /\ ~loading /\ error = ""
    /\ h \in WriteHandlers(view)
    /\ \A w \in writes : w.handler # h
    /\ Cardinality(Pending) + strategyCalls + Cardinality(writes) < MaxInFlight
    /\ h \in TradeWriteHandlers(view) =>
          Len(calls) + Cardinality(TradeWritesInFlight) < MaxFetches
    /\ writes' = writes \cup {[handler |-> h, stage |-> "write"]}
    /\ UNCHANGED <<tz, loading, trades, strategies, filters, filtered,
                   filteredAfter, analyticsData, threw, analyticsDataOld,
                   threwOld, view, token, location, error, calls,
                   strategyCalls>>

\* The request of write handler h comes back.  On an OK status the handler
\* calls fetchTrades or fetchStrategies, or first sends its rule requests.
writeResponse(h, outcome) ==
    /\ IsMounted
    /\ [handler |-> h, stage |-> "write"] \in writes
    /\ writes' =
          IF outcome = "ok" /\ AwaitsRuleRequests(view, h)
          THEN (writes \ {[handler |-> h, stage |-> "write"]})
                  \cup {[handler |-> h, stage |-> "rules"]}
          ELSE writes \ {[handler |-> h, stage |-> "write"]}
    /\ IF outcome = "401" /\ WriteHandles401(view)
       THEN Logout
       ELSE UNCHANGED <<token, location>>
    /\ loading' = IF outcome = "ok" /\ h \in TradeWriteHandlers(view)
                  THEN TRUE ELSE loading
    /\ calls' = IF outcome = "ok" /\ h \in TradeWriteHandlers(view)
                THEN Append(calls, "pending") ELSE calls
    /\ strategyCalls' =
          IF outcome = "ok" /\ h \in StrategyWriteHandlers(view)
             /\ ~AwaitsRuleRequests(view, h)
          THEN strategyCalls + 1 ELSE strategyCalls
    /\ error' =
          CASE outcome = "ok" ->
                  IF h \in TradeWriteHandlers(view) THEN "" ELSE error
            [] outcome = "401" ->
                  IF WriteHandles401(view) THEN error ELSE "Failed to save."
            [] outcome = "failed" -> "Failed to save."
            [] OTHER -> "Error saving."
    /\ UNCHANGED <<tz, trades, strategies, filters, filtered, filteredAfter,
                   analyticsData, threw, analyticsDataOld, threwOld, view>>

\* The rule requests of handler h have all come back (whatever their
\* status), or one of them was rejected, which ends the handler in its
\* catch block.
rulesDone(h, outcome) ==
    /\ IsMounted
    /\ [handler |-> h, stage |-> "rules"] \in writes
    /\ writes' = writes \ {[handler |-> h, stage |-> "rules"]}
    /\ strategyCalls' = IF outcome = "ok" THEN strategyCalls + 1 ELSE strategyCalls
    /\ error' = IF outcome = "ok" THEN error ELSE "Error saving."
    /\ UNCHANGED <<tz, loading, trades, strategies, filters, filtered,
                   filteredAfter, analyticsData, threw, analyticsDataOld,
                   threwOld, view, token, location, calls>>

NextViews ==
    \/ \E k \in 1..MaxFetches : \E outcome \in FetchOutcomes :
          fetchTradesResponse(k, outcome)
    \/ \E outcome \in FetchOutcomes \ {"unparsable"} : fetchStrategiesResponse(outcome)
    \/ retry
    \/ \E h \in AllWriteHandlers : startWrite(h)
    \/ \E h \in AllWriteHandlers : \E outcome \in WriteOutcomes :
          writeResponse(h, outcome)
    \/ \E h \in AllWriteHandlers : \E outcome \in {"ok", "exception"} :
          rulesDone(h, outcome)

SpecViews == InitViews /\ [][NextViews]_vars

\* A fetchTrades call that is in flight completes: the awaited fetch is
\* rejected or resolves to a response, of whatever status and body.
fetchTradesCompletes ==
    \/ \E k \in 1..MaxFetches : \E outcome \in FetchOutcomes \ {"ok"} :
          fetchTradesResponse(k, outcome)
    \/ \E k \in 1..MaxFetches : fetchTradesResponse(k, "ok")

\* Every fetchTrades request that is sent comes back.
SpecViewsFair == SpecViews /\ WF_vars(fetchTradesCompletes)

\* ------------------------------------------------------------- properties

\* The ids of the trades the last filter run kept, and whether it kept the
\* i-th trade of the list.
KeptIds == {filtered[j].id : j \in 1..Len(filtered)}

Kept(i) == trades[i].id \in KeptIds

\* Every filter field has its initial value.
FiltersUntouched ==
    \A k \in FilterKeys : SameValue(k, filters[k], InitialFilters[k])

\* A trade's confidence read as an integer: a number is itself, a string
\* that starts with digits is the integer they spell, and anything else
\* (missing, null, a string without leading digits) is 0.
ReadConfidence(trade) ==
    LET c == trade.confidence
    IN  CASE c.t = "number" -> c.v
          [] c.t = "string" ->
                IF DigitPrefixLen(c.v) > 0
                THEN DigitsValue(SubSeq(c.v, 1, DigitPrefixLen(c.v)))
                ELSE 0
          [] OTHER -> 0

\* A confidence bound as a number: the initial numbers, or the text of the
\* number input, an empty input being 0.
BoundValue(b) == IF b.t = "number" THEN b.v ELSE DigitsValue(b.v)

\* Minutes since midnight of a trade's buy time and of an "HH:MM" bound; an
\* empty bound sorts before every time of day.
MinutesOfDay(trade) == trade.buy_timestamp.hour * 60 + trade.buy_timestamp.minute

ClockMinutes(s) ==
    IF s = <<>> THEN -1
    ELSE (DigitVal(s[1]) * 10 + DigitVal(s[2])) * 60
         + DigitVal(s[4]) * 10 + DigitVal(s[5])

\* The adherence entries of a trade, none when the list is missing or null.
Entries(trade) ==
    IF trade.rule_adherence.t = "array" THEN trade.rule_adherence.v ELSE <<>>

FollowedEntries(trade) ==
    Cardinality({i \in 1..Len(Entries(trade)) : Entries(trade)[i].followed})

\* C1: computeAnalytics returns a result without throwing for every filtered
\* list: empty, one trade, two or more trades.
C1_ComputeAnalyticsNeverThrows == ~threw

C3_FilterKeepsOrderedSublist ==
    /\ \A j \in 1..Len(filtered) : \E i \in 1..Len(trades) : trades[i] = filtered[j]
    /\ \A j, k \in 1..Len(filtered) :
          j < k => \E a, b \in 1..Len(trades) :
                      a < b /\ trades[a] = filtered[j] /\ trades[b] = filtered[k]

\* C3 witness: two trades, both kept by an active strategy filter.
C3_Witness ==
    /\ Len(trades) = 2 /\ filters.strategyId = <<"1">>
    /\ Len(filtered) = 2 /\ filtered[1].id = 1 /\ filtered[2].id = 2

\* C4, as stated: with the component's initial filter state applyFilters
\* returns the full list, a missing confidence included.
C4_InitialFiltersKeepAll == (~loading /\ FiltersUntouched) => filtered = trades

\* C4, amended: with the component's initial filter state applyFilters
\* returns, in input order, exactly the trades whose confidence read as an
\* integer lies in 1..5, so the full list when every trade has one, while a
\* trade with a missing confidence is dropped.
C4_InitialFiltersKeepConfidence1to5 ==
    (~loading /\ FiltersUntouched) =>
        /\ filtered = SelectSeq(trades, LAMBDA t : ReadConfidence(t) \in 1..5)
        /\ (\A i \in 1..Len(trades) : ReadConfidence(trades[i]) \in 1..5)
              => filtered = trades
        /\ \A i \in 1..Len(trades) :
              trades[i].confidence = Undefined => ~Kept(i)

\* C4 witness: under the initial filters a trade without confidence is
\* dropped and a trade with confidence 5 behind it is kept.
C4_Witness ==
    /\ FiltersUntouched /\ Len(trades) = 2
    /\ trades[1].confidence = Undefined /\ trades[2].confidence = Num(5)
    /\ Len(filtered) = 1 /\ filtered[1].id = 2

\* C5: for a trade with at least one adherence entry, 'Followed' keeps it
\* exactly when at least 80 percent of the entries are followed and 'Broken'
\* exactly when fewer are, so exactly one of the two settings keeps it.
C5_FollowedAndBrokenPartition ==
    \A i \in 1..Len(trades) :
        Len(Entries(trades[i])) > 0 =>
            /\ filters.followed = "Followed" =>
                  (Kept(i) <=> 5 * FollowedEntries(trades[i]) >= 4 * Len(Entries(trades[i])))
            /\ filters.followed = "Broken" =>
                  (Kept(i) <=> 5 * FollowedEntries(trades[i]) < 4 * Len(Entries(trades[i])))

\* C6: a trade with no adherence entries (missing, null or an empty list)
\* is kept by 'Followed' and dropped by 'Broken'.
C6_NoEntriesCountAsFollowed ==
    \A i \in 1..Len(trades) :
        Len(Entries(trades[i])) = 0 =>
            /\ filters.followed = "Followed" => Kept(i)
            /\ filters.followed = "Broken" => ~Kept(i)

\* C7: every trade applyFilters keeps has its confidence, a missing or
\* non-numeric one counting as 0, in [confidenceMin, confidenceMax]
\* inclusive; a trade without confidence is dropped whenever
\* confidenceMin >= 1.
C7_KeptConfidenceWithinBounds ==
    /\ \A j \in 1..Len(filtered) :
          /\ BoundValue(filters.confidenceMin) <= ReadConfidence(filtered[j])
          /\ ReadConfidence(filtered[j]) <= BoundValue(filters.confidenceMax)
    /\ \A i \in 1..Len(trades) :
          (trades[i].confidence \in {Undefined, Null}
             /\ BoundValue(filters.confidenceMin) >= 1) => ~Kept(i)

\* C7 witness: with confidenceMin set to 3 a trade without confidence is
\* dropped and a trade with confidence 3, on the bound, is kept.
C7_Witness ==
    /\ filters.confidenceMin = Str(<<"3">>) /\ Len(trades) = 2
    /\ trades[1].confidence = Undefined /\ trades[2].confidence = Num(3)
    /\ Len(filtered) = 1 /\ filtered[1].id = 2

\* C8: with only the date bounds set, a trade is kept exactly when its buy
\* day lies in [startDate, endDate]: any time of day on the start day or on
\* the end day is kept, an unset bound restricts nothing.
C8_DateRangeInclusive ==
    (filters.startTime = InitialFilters.startTime
       /\ filters.endTime = InitialFilters.endTime) =>
        \A i \in 1..Len(trades) :
            Kept(i) <=>
                /\ filters.startDate = <<>>
                      \/ trades[i].buy_timestamp.day >= filters.startDate[1]
                /\ filters.endDate = <<>>
                      \/ trades[i].buy_timestamp.day <= filters.endDate[1]

\* C9: every kept trade has the HH:MM of its buy_timestamp in
\* [startTime, endTime] inclusive; with no date bound set a trade is kept
\* exactly when it is, so one bought exactly at startTime or at endTime is
\* kept and the default bounds 00:00 and 23:59 drop no trade.
C9_TimeOfDayInclusive ==
    /\ \A j \in 1..Len(filtered) :
          /\ ClockMinutes(filters.startTime) <= MinutesOfDay(filtered[j])
          /\ MinutesOfDay(filtered[j]) <= ClockMinutes(filters.endTime)
    /\ (filters.startDate = <<>> /\ filters.endDate = <<>>) =>
          \A i \in 1..Len(trades) :
              Kept(i) <=>
                  /\ ClockMinutes(filters.startTime) <= MinutesOfDay(trades[i])
                  /\ MinutesOfDay(trades[i]) <= ClockMinutes(filters.endTime)
    /\ (~loading /\ FiltersUntouched) => filtered = trades

\* C9 witness: with both bounds at 09:30 the trade bought at 09:30 is kept
\* and the one bought at 09:31 is dropped.
C9_Witness ==
    /\ filters.startTime = <<"0", "9", ":", "3", "0">>
    /\ filters.endTime = <<"0", "9", ":", "3", "0">>
    /\ Len(trades) = 2
    /\ MinutesOfDay(trades[1]) = 570 /\ MinutesOfDay(trades[2]) = 571
    /\ Len(filtered) = 1 /\ filtered[1].id = 1

\* C10: a set strategyId keeps only trades with that strategy_id, a trade
\* type or direction other than 'All' only trades with that value, and a
\* trade is kept exactly when it passes every active filter: here the
\* strategy, type and direction selects and the initial confidence range.
C10_SelectsMatchExactlyAndConjoin ==
    \A i \in 1..Len(trades) :
        Kept(i) <=>
            /\ filters.strategyId # <<>> =>
                  /\ trades[i].strategy_id.t = "number"
                  /\ trades[i].strategy_id.v = DigitsValue(filters.strategyId)
            /\ filters.tradeType # "All" => trades[i].trade_type = filters.tradeType
            /\ filters.direction # "All" => trades[i].direction = filters.direction
            /\ ReadConfidence(trades[i]) \in 1..5

\* C10 witness: direction = Long on the Long and the Short trade of the
\* documented scenario keeps exactly the Long trade.
C10_Witness ==
    /\ filters.direction = "Long" /\ Len(trades) = 2
    /\ trades[1].direction = "Long" /\ trades[1].pnl = Num(100)
    /\ trades[2].direction = "Short" /\ trades[2].pnl = Num(-50)
    /\ Len(filtered) = 1 /\ filtered[1] = trades[1]

\* The instant a trade was bought at, as the equity curve's sort compares it.
BoughtAt(trade) == DateFromTimestamp(trade.buy_timestamp, tz)

Pnl(trade) == IF trade.pnl.t = "number" THEN trade.pnl.v ELSE 0

RMultiple(trade) ==
    LET r == Get(trade, "r_multiple")
    IN  IF r.t = "number" THEN Rat(r.n, r.d) ELSE Rat(0, 1)

IsWin(trade) == RMultiple(trade).n > 0

Wins(trs) == Cardinality({i \in 1..Len(trs) : IsWin(trs[i])})

RECURSIVE PnlSum(_)
PnlSum(trs) == IF trs = <<>> THEN 0 ELSE Pnl(Head(trs)) + PnlSum(Tail(trs))

RECURSIVE RSum(_)
RSum(trs) == IF trs = <<>> THEN Rat(0, 1) ELSE RatAdd(RMultiple(Head(trs)), RSum(Tail(trs)))

\* The decimal s has exactly the given number of digits after the point and
\* is a closest such decimal to the quotient x.
IsRounded(s, x, digits) ==
    /\ ~s.nan /\ s.digits = digits /\ x.d # 0
    /\ LET v == (IF s.neg THEN -1 ELSE 1) * s.mag
           diff == v * x.d - x.n * Pow10(digits)
       IN  2 * (IF diff < 0 THEN -diff ELSE diff) <= x.d

\* The decimal s is the number whole.
IsWhole(s, whole) == ~s.nan /\ ~s.neg /\ s.mag = whole * Pow10(s.digits)

\* A result has been computed for a list that is not empty.
NonEmptyRun == ~loading /\ Len(filtered) > 0

\* C13: for a non-empty filtered list computeAnalytics returns totalTrades =
\* its length, totalPnl = the sum of pnl (missing as 0), winRate = 100 x
\* (trades with r_multiple > 0) / totalTrades rounded to one decimal and
\* avgR = the mean r_multiple (missing as 0) rounded to two decimals; for the
\* trades (pnl 100, r 1) and (pnl -50, r -0.5) that is 2, 50, 50.0 and 0.25.
C13_ScalarsOfNonEmptyList ==
    NonEmptyRun =>
        /\ ~threw
        /\ analyticsData.totalTrades = Len(filtered)
        /\ analyticsData.totalPnl = PnlSum(filtered)
        /\ IsRounded(analyticsData.winRate,
                     Rat(100 * Wins(filtered), Len(filtered)), 1)
        /\ IsRounded(analyticsData.avgR, RatDivInt(RSum(filtered), Len(filtered)), 2)
        /\ (/\ Len(filtered) = 2
            /\ Pnl(filtered[1]) = 100 /\ RMultiple(filtered[1]) = Rat(1, 1)
            /\ Pnl(filtered[2]) = -50 /\ RMultiple(filtered[2]) = Rat(-1, 2))
              => /\ analyticsData.totalTrades = 2 /\ analyticsData.totalPnl = 50
                 /\ analyticsData.winRate = Fixed(FALSE, 500, 1)
                 /\ analyticsData.avgR = Fixed(FALSE, 25, 2)

\* C14: for a non-empty filtered list of Long and Short trades only,
\* computeAnalytics returns longPnl and shortPnl as the pnl sums of the Long
\* and of the Short trades, and totalPnl = longPnl + shortPnl.
C14_TotalIsLongPlusShort ==
    (NonEmptyRun
       /\ \A j \in 1..Len(filtered) : filtered[j].direction \in {"Long", "Short"}) =>
        /\ ~threw
        /\ analyticsData.longPnl =
              PnlSum(SelectSeq(filtered, LAMBDA t : t.direction = "Long"))
        /\ analyticsData.shortPnl =
              PnlSum(SelectSeq(filtered, LAMBDA t : t.direction = "Short"))
        /\ analyticsData.totalPnl = analyticsData.longPnl + analyticsData.shortPnl

\* A winRate string reads as a number from 0 to 100.
IsPercentage(s) == ~s.nan /\ (s.mag = 0 \/ ~s.neg) /\ s.mag <= 100 * Pow10(s.digits)

GroupingNames == {"byStrategy", "byRule", "byType", "byHour", "byDayOfWeek"}

\* C15: for a non-empty filtered list computeAnalytics returns a winRate
\* from 0 to 100, and so is the winRate of every group of every grouping.
C15_WinRatesArePercentages ==
    NonEmptyRun =>
        /\ ~threw
        /\ IsPercentage(analyticsData.winRate)
        /\ \A g \in GroupingNames : \A k \in DOMAIN analyticsData[g] :
              IsPercentage(analyticsData[g][k].winRate)

\* The longest run of consecutive wins (or of consecutive trades that are
\* no win) in a list, 0 when there is none.
LongestRun(trs, wins) ==
    LET runs == {r \in (1..Len(trs)) \X (1..Len(trs)) :
                    /\ r[1] <= r[2]
                    /\ \A i \in r[1]..r[2] : IsWin(trs[i]) = wins}
    IN  IF runs = {} THEN 0
        ELSE CHOOSE n \in 1..Len(trs) :
                /\ \E r \in runs : r[2] - r[1] + 1 = n
                /\ \A r \in runs : r[2] - r[1] + 1 <= n

\* C16: for a non-empty filtered list computeAnalytics returns
\* maxConsecutiveWins = the longest run of trades with r_multiple > 0 and
\* maxConsecutiveLosses = the longest run of the others (r_multiple <= 0 or
\* missing), in the order of the filtered list; three wins and then a loss
\* give 3 and 1.
C16_LongestRunsInInputOrder ==
    NonEmptyRun =>
        /\ ~threw
        /\ analyticsData.maxConsecutiveWins = LongestRun(filtered, TRUE)
        /\ analyticsData.maxConsecutiveLosses = LongestRun(filtered, FALSE)

\* The positions of a list in ascending order of buy time, trades bought at
\* the same instant in list order.
TimeOrder(trs) ==
    CHOOSE p \in [1..Len(trs) -> 1..Len(trs)] :
        \A a, b \in 1..Len(trs) :
            a < b => \/ BoughtAt(trs[p[a]]) < BoughtAt(trs[p[b]])
                     \/ BoughtAt(trs[p[a]]) = BoughtAt(trs[p[b]]) /\ p[a] < p[b]

\* C17: for a non-empty filtered list computeAnalytics returns an equity
\* curve with one point per filtered trade, in ascending order of
\* buy_timestamp (equal timestamps in input order); the k-th point carries
\* the calendar day of the k-th trade in that order and the sum of the pnl
\* of the first k trades, so the last point carries totalPnl.
C17_EquityCurveIsRunningSum ==
    NonEmptyRun =>
        /\ ~threw
        /\ Len(analyticsData.equityCurve) = Len(filtered)
        /\ \A k \in 1..Len(filtered) :
              /\ analyticsData.equityCurve[k].date =
                    filtered[TimeOrder(filtered)[k]].buy_timestamp.day
              /\ analyticsData.equityCurve[k].pnl =
                    PnlSum([j \in 1..k |-> filtered[TimeOrder(filtered)[j]]])
        /\ analyticsData.equityCurve[Len(filtered)].pnl = analyticsData.totalPnl

\* The weekday (0 = Sunday) and the hour a trade was bought at, as its
\* timestamp spells them; day 0 is a Thursday.
Weekday(trade) == (trade.buy_timestamp.day + 4) % 7

Hour(trade) == trade.buy_timestamp.hour

RECURSIVE SeqSum(_)
SeqSum(q) == IF q = <<>> THEN 0 ELSE Head(q) + SeqSum(Tail(q))

\* The sums of row d and of column h of the heatmap, d in 0..6, h in 0..23.
RowSum(d) == SeqSum(analyticsData.heatmapPnL[d + 1])

ColumnSum(h) == SeqSum([d \in 1..7 |-> analyticsData.heatmapPnL[d][h + 1]])

\* C18: for a non-empty filtered list computeAnalytics returns a heatmap of
\* 7 rows of 24 cells; cell [day][hour] is the pnl sum of the filtered
\* trades bought on that weekday in that hour, 0 without any, and the 168
\* cells add up to totalPnl.
C18_HeatmapCellsSumPnl ==
    NonEmptyRun =>
        /\ ~threw
        /\ Len(analyticsData.heatmapPnL) = 7
        /\ \A d \in 0..6 :
              /\ Len(analyticsData.heatmapPnL[d + 1]) = 24
              /\ \A h \in 0..23 :
                    analyticsData.heatmapPnL[d + 1][h + 1] =
                        PnlSum(SelectSeq(filtered,
                                         LAMBDA t : Weekday(t) = d /\ Hour(t) = h))
        /\ SeqSum([d \in 1..7 |-> RowSum(d - 1)]) = analyticsData.totalPnl

\* C19: for a non-empty filtered list the groupings and the heatmap index
\* weekdays and hours alike: row d of the heatmap adds up to
\* byDayOfWeek[d].pnl and column h to byHour[h].pnl, 0 for an absent key.
C19_HeatmapAgreesWithGroupings ==
    NonEmptyRun =>
        /\ ~threw
        /\ \A d \in 0..6 :
              RowSum(d) = IF d \in DOMAIN analyticsData.byDayOfWeek
                          THEN analyticsData.byDayOfWeek[d].pnl ELSE 0
        /\ \A h \in 0..23 :
              ColumnSum(h) = IF h \in DOMAIN analyticsData.byHour
                             THEN analyticsData.byHour[h].pnl ELSE 0

\* The decimal s is the quotient x exactly.
IsNumber(s, x) ==
    /\ ~s.nan /\ x.d # 0
    /\ (IF s.neg THEN -1 ELSE 1) * s.mag * x.d = x.n * Pow10(s.digits)

\* The group entry e counts and sums exactly the trades of members.
EntryCovers(e, members) ==
    /\ e.trades = Len(members) /\ e.pnl = PnlSum(members) /\ e.wins = Wins(members)

\* The derived fields of a group entry follow from its counts as stated.
EntryDerived(e) ==
    /\ DOMAIN e = {"trades", "pnl", "wins", "avgRisk", "winRate", "avgR", "expectancy"}
    /\ e.trades > 0 /\ e.wins <= e.trades
    /\ IsNumber(e.winRate, Rat(100 * e.wins, e.trades))
    /\ IsNumber(e.avgR, Rat(e.pnl, e.trades * 1000))
    /\ IsNumber(e.expectancy,
                RatSub(RatMul(Rat(e.wins, e.trades), Rat(e.pnl, e.trades * 1000)),
                       RatSub(Rat(1, 1), Rat(e.wins, e.trades))))

\* C20: for a non-empty filtered list every entry of every grouping has
\* the seven fields trades, pnl, wins, avgRisk, winRate, avgR and expectancy,
\* with winRate = 100 x wins / trades, avgR = pnl / trades / 1000 and
\* expectancy = winRate/100 x avgR - (1 - winRate/100); the entries of
\* byType, byHour and byDayOfWeek count, sum and count the wins of the
\* trades of that type, hour and weekday, and the entries of byStrategy and
\* of byRule cover every trade and every adherence record once.
C20_GroupEntriesCarrySevenFields ==
    NonEmptyRun =>
        /\ ~threw
        /\ \A g \in GroupingNames : \A k \in DOMAIN analyticsData[g] :
              EntryDerived(analyticsData[g][k])
        /\ \A k \in DOMAIN analyticsData.byType :
              EntryCovers(analyticsData.byType[k],
                          SelectSeq(filtered, LAMBDA t :
                              k = IF t.trade_type = "" THEN "Other" ELSE t.trade_type))
        /\ \A k \in DOMAIN analyticsData.byHour :
              EntryCovers(analyticsData.byHour[k],
                          SelectSeq(filtered, LAMBDA t : Hour(t) = k))
        /\ \A k \in DOMAIN analyticsData.byDayOfWeek :
              EntryCovers(analyticsData.byDayOfWeek[k],
                          SelectSeq(filtered, LAMBDA t : Weekday(t) = k))
        /\ \A j \in 1..Len(filtered) :
              /\ Hour(filtered[j]) \in DOMAIN analyticsData.byHour
              /\ Weekday(filtered[j]) \in DOMAIN analyticsData.byDayOfWeek

\* What a trade contributes to the mean risk/reward: (target - buy_price) /
\* (buy_price - stop), and 0 when target or stop is missing or the
\* denominator is 0.
Contribution(trade) ==
    LET target == Get(trade, "target")
        stop == Get(trade, "stop")
        price == IF Get(trade, "buy_price").t = "number" THEN trade.buy_price.v ELSE 0
    IN  IF target.t # "number" \/ stop.t # "number" \/ price - stop.v = 0
        THEN Rat(0, 1)
        ELSE IF price - stop.v < 0 THEN Rat(price - target.v, stop.v - price)
        ELSE Rat(target.v - price, price - stop.v)

RECURSIVE ContributionSum(_)
ContributionSum(trs) ==
    IF trs = <<>> THEN Rat(0, 1)
    ELSE RatAdd(Contribution(Head(trs)), ContributionSum(Tail(trs)))

\* C21: for a non-empty filtered list computeAnalytics returns avgRiskReward
\* = the mean over the trades of (target - buy_price) / (buy_price - stop),
\* a trade with denominator 0 or without target or stop contributing 0: the
\* result is a finite number and the other trades contribute as they would
\* without that trade.
C21_AvgRiskRewardSkipsUnusableTrades ==
    NonEmptyRun =>
        /\ ~threw
        /\ analyticsData.avgRiskReward.d # 0
        /\ analyticsData.avgRiskReward =
              RatDivInt(ContributionSum(filtered), Len(filtered))

\* The pnl values of a list in ascending order.
SortedPnls(trs) ==
    CHOOSE s \in [1..Len(trs) -> {Pnl(trs[i]) : i \in 1..Len(trs)}] :
        /\ \A i \in 1..Len(trs) - 1 : s[i] <= s[i + 1]
        /\ \A v \in {Pnl(trs[i]) : i \in 1..Len(trs)} :
              Cardinality({i \in 1..Len(trs) : s[i] = v})
                 = Cardinality({i \in 1..Len(trs) : Pnl(trs[i]) = v})

\* The least of 0 and value - peak over a walk of s without its last
\* element, the peak being the largest value met so far.
DrawdownOf(s) ==
    LET steps == {s[i] - (CHOOSE m \in {s[j] : j \in 1..i} :
                              \A j \in 1..i : s[j] <= m) : i \in 1..Len(s) - 1} \cup {0}
    IN  CHOOSE least \in steps : \A d \in steps : least <= d

\* The orderings of a list.
Orderings(trs) ==
    { [i \in 1..Len(trs) |-> trs[p[i]]] :
        p \in {q \in [1..Len(trs) -> 1..Len(trs)] :
                  \A a, b \in 1..Len(trs) : q[a] = q[b] => a = b} }

\* C22: for a non-empty filtered list both versions of computeAnalytics
\* return maxDrawdown = the least of 0 and (value - peak so far) over the
\* ascending pnls without the last, and return the same maxDrawdown for
\* every ordering of the list.
C22_MaxDrawdownOfSortedPnls ==
    NonEmptyRun =>
        /\ ~threw
        /\ analyticsData.maxDrawdown = DrawdownOf(SortedPnls(filtered))
        /\ \A other \in Orderings(filtered) :
              \A call \in {computeAnalytics(other, strategies, tz)} :
                 ~call.threw /\ call.value.maxDrawdown = analyticsData.maxDrawdown
        /\ ~threwOld
        /\ analyticsDataOld.maxDrawdown = DrawdownOf(SortedPnls(filtered))

\* The confidence a trade counts with: a missing one counts as 0.
ConfidenceOf(trade) == IF trade.confidence.t = "number" THEN trade.confidence.v ELSE 0

\* The win rate of a group of trades as a percentage, 0 for an empty group.
WinRateOf(group) ==
    IF group = <<>> THEN Rat(0, 1) ELSE Rat(100 * Wins(group), Len(group))

HighConfidence(trs) == SelectSeq(trs, LAMBDA t : ConfidenceOf(t) > 3)

LowConfidence(trs) == SelectSeq(trs, LAMBDA t : ConfidenceOf(t) <= 3)

\* C23: for a non-empty filtered list the overconfidence note computeAnalytics
\* returns is non-empty exactly when the win rate of the trades with
\* confidence > 3 is strictly lower than that of the trades with confidence
\* <= 3 or missing, and is '' otherwise.
C23_OverconfidenceNoteWhenHighWinsLess ==
    NonEmptyRun =>
        /\ ~threw
        /\ (analyticsData.behavioral.overconfidence # "")
              <=> RatLt(WinRateOf(HighConfidence(filtered)),
                        WinRateOf(LowConfidence(filtered)))

\* A trade has at least one adherence entry that was not followed.
HasBrokenRule(trade) == \E i \in 1..Len(Entries(trade)) :
                            ~Entries(trade)[i].followed

\* C24: for a non-empty filtered list computeAnalytics returns the
\* rule-break-impact note, and the note states the win rate of the trades
\* with a broken rule and the win rate of all other trades, among them the
\* trades without adherence entries.
C24_RuleBreakNoteSplitsAllTrades ==
    NonEmptyRun =>
        /\ ~threw
        /\ analyticsData.behavioral.ruleBreakImpact =
              "Win rate when rules broken: "
              \o FixedText(toFixed(WinRateOf(SelectSeq(filtered, HasBrokenRule)), 1))
              \o "% vs. followed: "
              \o FixedText(toFixed(WinRateOf(SelectSeq(filtered,
                                       LAMBDA t : ~HasBrokenRule(t))), 1))
              \o "%"

\* The name a trade is grouped under in byStrategy: that of the fetched
\* strategy with the trade's strategy_id, 'No Strategy' when there is none.
StrategyNameOf(trade) ==
    IF \E i \in 1..Len(strategies) : strategies[i].id = trade.strategy_id
    THEN strategies[CHOOSE i \in 1..Len(strategies) :
                        strategies[i].id = trade.strategy_id].name
    ELSE "No Strategy"

\* C25: once the trades and the strategies have arrived and every update is
\* processed, analyticsData is what computeAnalytics returns for the filtered
\* current trades with the current strategies and filters, whichever response
\* came first; byStrategy then holds a group under the fetched name of every
\* kept trade's strategy.
C25_AnalyticsFollowAllInputs ==
    (~loading /\ strategies # <<>>) =>
        \A call \in {computeAnalytics(applyFilters(trades, filters, tz), strategies, tz)} :
            /\ ~threw /\ ~call.threw
            /\ analyticsData = call.value
            /\ \A j \in 1..Len(filtered) :
                  StrategyNameOf(filtered[j]) \in DOMAIN analyticsData.byStrategy

\* The fetch that follows a write of handler h has been started in this
\* step: fetchTrades for a trade write, fetchStrategies for a strategy write.
Refetched(h) ==
    IF h \in TradeWriteHandlers(view)
    THEN Len(calls') = Len(calls) + 1 /\ calls'[Len(calls')] = "pending"
    ELSE strategyCalls' = strategyCalls + 1

\* C26: whenever a write handler of a Dashboard ends whose write request got
\* an OK response (add, edit and delete of a trade, CSV import, image upload,
\* create, update and delete of a strategy), it has called fetchTrades for a
\* trade write and fetchStrategies for a strategy write.
C26_SuccessfulWriteRefetches ==
    [][\A w \in writes :
          (/\ w \notin writes'
           /\ [handler |-> w.handler, stage |-> "rules"] \notin writes'
           /\ (w.stage = "rules" \/ writeResponse(w.handler, "ok")))
             => Refetched(w.handler)]_vars

\* C27: in every view, the step that handles a 401 response to the trades or
\* the strategies fetch removes the token and navigates to /login; the step
\* that handles another failure of the trades fetch (a non-OK status or a
\* rejected fetch) leaves the token and the route alone and leaves the view
\* showing an error instead of data.
C27_UnauthorizedLogsOutOtherFailuresShowError ==
    [][/\ \A k \in 1..MaxFetches :
             fetchTradesResponse(k, "401") => (~token' /\ location' = "/login")
       /\ fetchStrategiesResponse("401") => (~token' /\ location' = "/login")
       /\ \A k \in 1..MaxFetches : \A outcome \in {"failed", "exception"} :
             fetchTradesResponse(k, outcome) =>
                /\ token' = token /\ location' = location
                /\ ~loading' /\ error' # ""]_vars

\* The sum of one field over the groups of a grouping.
RECURSIVE SumOverGroups(_, _, _)
SumOverGroups(grouping, keys, field) ==
    IF keys = {} THEN 0
    ELSE LET k == CHOOSE key \in keys : TRUE
         IN  grouping[k][field] + SumOverGroups(grouping, keys \ {k}, field)

\* The trades of a list whose strategy_id is the id of no fetched strategy.
WithoutStrategy(trs) ==
    SelectSeq(trs, LAMBDA t : \A i \in 1..Len(strategies) :
                                  strategies[i].id # t.strategy_id)

\* C28: for a non-empty filtered list, in each of byStrategy, byType, byHour
\* and byDayOfWeek the groups' trades sum to totalTrades, their pnl to
\* totalPnl and their wins to the number of trades with r_multiple > 0; the
\* trades of no known strategy are counted under 'No Strategy' and the
\* trades without trade_type under 'Other'.
C28_GroupsPartitionTheTrades ==
    NonEmptyRun =>
        /\ ~threw
        /\ \A g \in {"byStrategy", "byType", "byHour", "byDayOfWeek"} :
              /\ SumOverGroups(analyticsData[g], DOMAIN analyticsData[g], "trades")
                    = analyticsData.totalTrades
              /\ SumOverGroups(analyticsData[g], DOMAIN analyticsData[g], "pnl")
                    = analyticsData.totalPnl
              /\ SumOverGroups(analyticsData[g], DOMAIN analyticsData[g], "wins")
                    = Wins(filtered)
        /\ analyticsData.totalTrades = Len(filtered)
        /\ WithoutStrategy(filtered) # <<>> =>
              /\ "No Strategy" \in DOMAIN analyticsData.byStrategy
              /\ analyticsData.byStrategy["No Strategy"].trades
                    >= Len(WithoutStrategy(filtered))
        /\ SelectSeq(filtered, LAMBDA t : t.trade_type = "") # <<>> =>
              /\ "Other" \in DOMAIN analyticsData.byType
              /\ analyticsData.byType["Other"].trades
                    = Len(SelectSeq(filtered, LAMBDA t : t.trade_type = ""))

\* C29: every step that handles the end of a fetchTrades call, whatever the
\* outcome, leaves loading false; a mounted view with no call in flight is
\* not loading; and, every request coming back, a view that is loading
\* stops loading (or is left for /login).
C29_LoadingEndsWithTheRequest ==
    /\ [][\A k \in 1..MaxFetches : \A outcome \in FetchOutcomes :
             fetchTradesResponse(k, outcome) => ~loading']_vars
    /\ []((IsMounted /\ Pending = {}) => ~loading)
    /\ ((IsMounted /\ loading) ~> (~loading \/ ~IsMounted))

\* C29 witness: a retried fetchTrades call has failed like the first one, no
\* call is in flight and the view is not loading.
C29_Witness ==
    /\ IsMounted /\ Len(calls) = 2
    /\ calls[1] = "failed" /\ calls[2] = "failed"
    /\ ~loading /\ error # ""

\* C30: once no fetchTrades call is in flight and the call started last got
\* an OK response, the trades state holds the response to that call, in
\* whatever order the responses to overlapping calls arrived.
C30_LatestRequestWins ==
    (IsMounted /\ Pending = {} /\ Len(calls) >= 2 /\ calls[Len(calls)] = "ok") =>
        trades = ServerList(Len(calls))

====
